---------------------------- MODULE Spec2Model ----------------------------
(***************************************************************************)
(* A model of fcrepo4.py, a client library for a Fedora Commons 4          *)
(* repository: the URI/path translation (path2uri, uri2path, pathconcat),  *)
(* the public operations of Repository (get, add_container, add_binary,    *)
(* put, delete, obliterate) and the conflict check _ensure_path that a     *)
(* deterministic-path create runs before its PUT.                          *)
(*                                                                         *)
(* Strings are sequences of one-character strings, so that slicing,        *)
(* concatenation and the regular expression of uri2path are computed as    *)
(* the code computes them.  Every HTTP request is one atomic step: the     *)
(* repository server answers it and changes its state in that step.        *)
(***************************************************************************)
EXTENDS Naturals, Sequences, FiniteSets

VARIABLES
    uri,      \* Repository.uri: the configured base URI, normalised
    server,   \* the repository server: what it holds at each of its nodes
    op,       \* per caller: the public operation in progress and its arguments
    pc,       \* per caller: the position inside that operation
    target,   \* per caller: the local variable uri of add_container/add_binary
    sent,     \* per caller: the HTTP requests the operation has issued, in order
    result,   \* per caller: how the operation ended (returned or raised)
    held,     \* per caller: the Resource object last returned to the caller
    before,   \* per caller: the server as it was when the operation started
    left,     \* per caller: how many more operations the caller will start
    fn,       \* translator check: the function that produced out
    arg,      \* translator check: the input string
    suf,      \* translator check: the suffix handed to pathconcat
    out       \* translator check: the value returned or the error raised

vars == <<uri, server, op, pc, target, sent, result, held, before, left, fn, arg, suf, out>>

callVars == <<server, op, pc, target, sent, result, held, before, left>>

-----------------------------------------------------------------------------
(* Bounds of the model *)

\* longest path string fed to the translator functions
MaxLen == 3
\* operations the sequential caller performs one after the other
MaxOps == 3
\* callers that run a deterministic-path create concurrently
NumCallers == 2

-----------------------------------------------------------------------------
(* Strings *)

SEP == "/"
NL == "\n"

Rest == <<"r", "e", "s", "t">>
RestSlash == Rest \o <<SEP>>
FcrTombstone == <<"f", "c", "r", ":", "t", "o", "m", "b", "s", "t", "o", "n", "e">>

\* s[:-1] of Python: all but the last character (empty for a string of length <= 1)
ButLast(s) == IF Len(s) = 0 THEN <<>> ELSE SubSeq(s, 1, Len(s) - 1)

\* s[-1:] of Python: the last character as a string (empty for the empty string)
LastStr(s) == IF Len(s) = 0 THEN <<>> ELSE SubSeq(s, Len(s), Len(s))

\* s[n:] of Python for 0 <= n
Drop(s, n) == SubSeq(s, n + 1, Len(s))

StartsWith(s, p) == Len(s) >= Len(p) /\ SubSeq(s, 1, Len(p)) = p

NoNewline(s) == \A i \in 1..Len(s) : s[i] # NL

\* all strings over alphabet A of length at most n
RECURSIVE StringsUpTo(_, _)
StringsUpTo(A, n) ==
    IF n = 0 THEN {<<>>}
    ELSE LET shorter == StringsUpTo(A, n - 1)
         IN  shorter \cup {Append(s, ch) : s \in shorter, ch \in A}

-----------------------------------------------------------------------------
(* Repository.__init__: the base URI and the path pattern derived from it *)

\* configd['uri'] values the repository is constructed with
ConfigURIs == {<<"h">>, <<"h", SEP>>, <<"h", ".", "o">>}

\* the base URI always ends with a separator
NormaliseBase(cfg) == IF LastStr(cfg) # <<SEP>> THEN cfg \o <<SEP>> ELSE cfg

\* the text the pattern "^{}rest/(.*)$" is formatted with, before the group
PatternPrefix(base) == base \o RestSlash

\* one pattern character against one subject character: the base URI is put
\* into the pattern unescaped, so '.' is the wildcard (any character but newline)
CharMatches(p, ch) == IF p = "." THEN ch # NL ELSE p = ch

PrefixMatches(pat, s) ==
    /\ Len(s) >= Len(pat)
    /\ \A i \in 1..Len(pat) : CharMatches(pat[i], s[i])

\* what "(.*)$" captures of the tail, or no match: '.' does not cross a newline
\* and '$' matches at the end or just before a final newline
GroupOf(tail) ==
    IF NoNewline(tail) THEN [ok |-> TRUE, path |-> tail]
    ELSE IF LastStr(tail) = <<NL>> /\ NoNewline(ButLast(tail))
         THEN [ok |-> TRUE, path |-> ButLast(tail)]
         ELSE [ok |-> FALSE, path |-> <<>>]

\* self.pathre.match(u): ok with group(1), or no match
PathreMatch(base, u) ==
    LET pat == PatternPrefix(base)
    IN  IF PrefixMatches(pat, u)
        THEN GroupOf(Drop(u, Len(pat)))
        ELSE [ok |-> FALSE, path |-> <<>>]

-----------------------------------------------------------------------------
(* The URI/path translator *)

\* mutant of path2uri: the "rest" segment is left out
path2uri_no_rest(base, path) ==
    IF path = <<>> THEN base
    ELSE IF path[1] # SEP THEN base \o path
    ELSE ButLast(base) \o path

\* mutant of path2uri: the test for a leading separator is inverted
path2uri_inverted(base, path) ==
    LET u == base \o Rest
    IN  IF path = <<>> THEN u
        ELSE IF path[1] = SEP THEN u \o <<SEP>> \o path
        ELSE u \o path

path2uri(base, path) ==
    LET u == base \o Rest
    IN  IF path = <<>> THEN u
        ELSE IF path[1] # SEP THEN u \o <<SEP>> \o path
        ELSE u \o path

\* ok with the path, or URIError
uri2path(base, u) == PathreMatch(base, u)

pathconcat(path, s) ==
    IF ButLast(path) = <<SEP>> THEN path \o s ELSE path \o <<SEP>> \o s

-----------------------------------------------------------------------------
(* Values the callers pass and the server holds *)

Callers == 1..NumCallers

\* configurations the repository of the protocol model is constructed with
ProtocolConfigs == {<<"h">>, <<"h", SEP>>}

\* a Python value that is a Graph (its triples) or None
GraphVal(ts) == [some |-> TRUE, triples |-> ts]
NoneVal == [some |-> FALSE, triples |-> {}]

\* bool(v): None and a Graph with no triples are both false
Truthy(v) == v.some /\ v.triples # {}

Graphs == {{}, {"title1"}, {"title2"}}

\* the kinds of value passed as add_binary's source: the name of a local file,
\* an http(s) URL, or something that is not a string
Sources == {"file", "url", "other"}

\* the URL an add_binary source of kind "url" names
SourceURL == <<"s", SEP, "p">>

\* the container the callers create in, the child a deterministic-path create
\* with path "b" targets, and a URI of another repository
Cont(base) == base \o RestSlash \o <<"a">>
Child(base) == Cont(base) \o <<SEP, "b">>
Foreign == <<"g", SEP>> \o RestSlash \o <<"a">>

Nodes(base) == {Cont(base), Child(base)}
URIArgs(base) == {Cont(base), Child(base), Foreign}
ParentArgs(base) == {Cont(base), Foreign}
PathArgs == {<<>>, <<"b">>}

\* requests.codes
OK == 200
CREATED == 201
NO_CONTENT == 204
FORBIDDEN == 403
NOT_FOUND == 404
CONFLICT == 409
GONE == 410

-----------------------------------------------------------------------------
(* The repository server (the environment of the library) *)

FreeNode == [kind |-> "free", triples |-> {}]
TombNode == [kind |-> "tomb", triples |-> {}]
RdfNode(ts) == [kind |-> "rdf", triples |-> ts]
BinaryNode == [kind |-> "binary", triples |-> {}]

NoPayload == FreeNode

\* the node a request URI names, and whether it names the node's tombstone
IsNode(base, u) == u \in Nodes(base)
IsTombstoneOf(n, u) == u = n \o <<SEP>> \o FcrTombstone
IsTombstone(base, u) == \E n \in Nodes(base) : IsTombstoneOf(n, u)
NodeOfTombstone(base, u) == CHOOSE n \in Nodes(base) : IsTombstoneOf(n, u)

\* the location a server may name in the body of a 201 reply: the URI it was
\* asked under, or the same resource under the server's own host name
Locations(u) == {u, <<"g">> \o Drop(u, 1)}

Reply(status, srv, loc, ts, turtle) ==
    [status |-> status, srv |-> srv, location |-> loc, triples |-> ts, turtle |-> turtle]

Plain(status, srv) == Reply(status, srv, <<>>, {}, FALSE)

\* the answers of a server in state srv to one request, each with the state
\* the server is in afterwards
NormalReplies(base, srv, method, u, payload) ==
    IF IsTombstone(base, u) THEN
        LET n == NodeOfTombstone(base, u)
        IN  IF method = "DELETE" /\ srv[n].kind = "tomb"
            THEN {Plain(NO_CONTENT, [srv EXCEPT ![n] = FreeNode])}
            ELSE {Plain(NOT_FOUND, srv)}
    ELSE IF ~IsNode(base, u) THEN {Plain(NOT_FOUND, srv)}
    ELSE IF srv[u].kind = "tomb" THEN {Plain(GONE, srv)}
    ELSE IF method = "GET" THEN
        IF srv[u].kind = "free" THEN {Plain(NOT_FOUND, srv)}
        ELSE {Reply(OK, srv, <<>>, srv[u].triples, srv[u].kind = "rdf")}
    ELSE IF method = "DELETE" THEN
        IF srv[u].kind = "free" THEN {Plain(NOT_FOUND, srv)}
        ELSE {Plain(NO_CONTENT, [srv EXCEPT ![u] = TombNode])}
    ELSE IF method = "PUT" THEN
        IF srv[u].kind = "free"
        THEN {Reply(CREATED, [srv EXCEPT ![u] = payload], loc, {}, FALSE) :
                  loc \in Locations(u)}
        ELSE IF srv[u].kind = payload.kind
             THEN {Plain(NO_CONTENT, [srv EXCEPT ![u] = payload])}
             ELSE {Plain(CONFLICT, srv)}
    ELSE \* POST: the server assigns the new child's path itself
        IF srv[u].kind = "free" THEN {Plain(NOT_FOUND, srv)}
        ELSE UNION {{Reply(CREATED, [srv EXCEPT ![n] = payload], loc, {}, FALSE) :
                         loc \in Locations(n)} :
                    n \in {m \in Nodes(base) : m # u /\ srv[m].kind = "free"}}

\* any request may also be refused, the server's state unchanged; a POST the
\* server has no unused child path left for is outside the model
ServerReplies(base, srv, method, u, payload) ==
    LET normal == NormalReplies(base, srv, method, u, payload)
    IN  IF normal = {} THEN {} ELSE normal \cup {Plain(FORBIDDEN, srv)}

\* bool(response) of the requests library: Response.ok, false for 4xx and 5xx
ResponseTruthy(status) == ~(400 <= status /\ status < 600)

-----------------------------------------------------------------------------
(* The callers' state *)

\* the arguments of a public operation; an argument the operation does not
\* take, or that is left out (path=None, metadata=None), has its default
NoCall ==
    [name |-> "none", uri |-> <<>>, path |-> <<>>, force |-> FALSE,
     metadata |-> NoneVal, source |-> "file"]

\* class Resource: Resource.__init__ stores the uri it is given as it is;
\* the rdf attribute is set only for a resource that carries RDF
NoResource == [some |-> FALSE, uri |-> <<>>, hasRdf |-> FALSE, rdf |-> {}]
Resource(u, hasRdf, ts) == [some |-> TRUE, uri |-> u, hasRdf |-> hasRdf, rdf |-> ts]

\* how an operation ended: it returned, or raised one of the Error classes
\* (ResourceError with the status code of the response)
Pending == [kind |-> "none", status |-> 0]
Returned == [kind |-> "returned", status |-> 0]
Raised(kind, status) == [kind |-> kind, status |-> status]

\* PUT requests issued so far, by all callers
IsPut(s, i) == s[i].method = "PUT"
PutsIn(s) == Cardinality({i \in 1..Len(s) : IsPut(s, i)})
RECURSIVE PutsUpTo(_)
PutsUpTo(c) == IF c = 0 THEN 0 ELSE PutsIn(sent[c]) + PutsUpTo(c - 1)
PutsSoFar == PutsUpTo(NumCallers)

\* one HTTP request as it went over the wire, with the status of its response
\* and the number of PUT requests that had gone before it
Request(method, u, status) ==
    [method |-> method, uri |-> u, status |-> status, afterPuts |-> PutsSoFar]

Ready(c) == pc[c] \in {"idle", "done"} /\ left[c] > 0

-----------------------------------------------------------------------------
(* Repository.api and the decisions the operations take on its response *)

\* the outcomes of api(u, method): URIError before anything is sent, or the
\* request is sent and the server's response returned
api(base, srv, method, u, payload) ==
    IF ~uri2path(base, u).ok
    THEN {[raised |-> TRUE, reply |-> Plain(0, srv)]}
    ELSE {[raised |-> FALSE, reply |-> r] :
              r \in ServerReplies(base, srv, method, u, payload)}

Requests(a, method, u) ==
    IF a.raised THEN <<>> ELSE <<Request(method, u, a.reply.status)>>

\* Repository.get on the outcome of its api call
get_result(a) ==
    IF a.raised THEN Raised("URIError", 0)
    ELSE IF a.reply.status = OK THEN Returned
    ELSE Raised("ResourceError", a.reply.status)

get_resource(a, u) ==
    IF ~a.raised /\ a.reply.status = OK
    THEN Resource(u, a.reply.turtle, IF a.reply.turtle THEN a.reply.triples ELSE {})
    ELSE NoResource

\* mutant of _delete_uri: a status other than 204 is returned, not raised
_delete_uri_no_raise(a) ==
    IF a.raised THEN Raised("URIError", 0) ELSE Returned

\* Repository._delete_uri on the outcome of its api call
_delete_uri(a) ==
    IF a.raised THEN Raised("URIError", 0)
    ELSE IF a.reply.status = NO_CONTENT THEN Returned
    ELSE Raised("ResourceError", a.reply.status)

\* mutant of tombstone: the suffix is appended without a separator
tombstone_no_sep(u) == u \o FcrTombstone

\* the tombstone Repository.obliterate deletes
tombstone(u) == pathconcat(u, FcrTombstone)

\* Repository.put on the outcome of its api call
put_result(a) ==
    IF a.raised THEN Raised("URIError", 0)
    ELSE IF a.reply.status = NO_CONTENT THEN Returned
    ELSE Raised("ResourceError", a.reply.status)

\* mutant of _ensure_path_decision: force is not looked at
_ensure_path_decision_always_force(status, force) ==
    IF ResponseTruthy(status) THEN "force" ELSE "free"

\* mutant of _ensure_path_decision: "if not response"
_ensure_path_decision_inverted(status, force) ==
    IF ~ResponseTruthy(status)
    THEN IF force THEN "force" ELSE "conflict"
    ELSE "free"

\* mutant of _ensure_path_decision: "if response is not None"
_ensure_path_decision_any_response(status, force) ==
    IF force THEN "force" ELSE "conflict"

\* Repository._ensure_path after its GET: "free" (go on to create), "force"
\* (delete and obliterate first) or "conflict" (raise ConflictError).  api
\* returns the response whatever its status and raises no ResourceError, so
\* the except clause never runs and the status is looked at only by
\* "if response"
_ensure_path_decision(status, force) ==
    IF ResponseTruthy(status)
    THEN IF force THEN "force" ELSE "conflict"
    ELSE "free"

\* Repository._add_resource on the outcome of its api call
_add_resource_result(a) ==
    IF a.raised THEN Raised("URIError", 0)
    ELSE IF a.reply.status = CREATED THEN Returned
    ELSE Raised("ResourceError", a.reply.status)

\* the Resource _add_resource builds from response.text, and add_container
\* then sets the rdf of to the metadata it was given
_add_resource_resource(a, call) ==
    IF ~a.raised /\ a.reply.status = CREATED
    THEN IF call.name = "add_container"
         THEN Resource(a.reply.location, TRUE, call.metadata.triples)
         ELSE Resource(a.reply.location, FALSE, {})
    ELSE NoResource

\* what add_container and add_binary do before their first request
CreateTarget(call) ==
    IF call.path # <<>> THEN pathconcat(call.uri, call.path) ELSE call.uri

CreateMethod(call) == IF call.path # <<>> THEN "PUT" ELSE "POST"

AfterEnsure(call) == IF call.name = "add_container" THEN "add" ELSE "source"

CreateEntry(call) == IF call.path # <<>> THEN "ensure" ELSE AfterEnsure(call)

CreatePayload(call) ==
    IF call.name = "add_container" THEN RdfNode(call.metadata.triples) ELSE BinaryNode

-----------------------------------------------------------------------------
(* The public operations, one step per HTTP request *)

\* a caller starts operation call
Enter(c, call) ==
    /\ op' = [op EXCEPT ![c] = call]
    /\ target' = [target EXCEPT ![c] = CreateTarget(call)]
    /\ before' = [before EXCEPT ![c] = server]
    /\ left' = [left EXCEPT ![c] = @ - 1]

\* the effect of one step of caller c: the requests it sent, the server
\* afterwards, where the caller goes on, and what it returned or raised
Effect(c, old, reqs, srv, nextpc, res, resource) ==
    /\ sent' = [sent EXCEPT ![c] = old \o reqs]
    /\ server' = srv
    /\ pc' = [pc EXCEPT ![c] = nextpc]
    /\ result' = [result EXCEPT ![c] = res]
    /\ held' = [held EXCEPT ![c] = IF resource.some THEN resource ELSE @]

\* Repository.get(uri)
get(c) ==
    /\ Ready(c)
    /\ \E u \in URIArgs(uri) :
         /\ Enter(c, [NoCall EXCEPT !.name = "get", !.uri = u])
         /\ \E a \in api(uri, server, "GET", u, NoPayload) :
              Effect(c, <<>>, Requests(a, "GET", u), a.reply.srv, "done",
                     get_result(a), get_resource(a, u))
    /\ UNCHANGED <<uri, fn, arg, suf, out>>

\* Repository.put(uri, metadata)
put(c) ==
    /\ Ready(c)
    /\ \E u \in URIArgs(uri), md \in {GraphVal(g) : g \in Graphs} \cup {NoneVal} :
         /\ Enter(c, [NoCall EXCEPT !.name = "put", !.uri = u, !.metadata = md])
         /\ IF Truthy(md)
            THEN \E a \in api(uri, server, "PUT", u, RdfNode(md.triples)) :
                   Effect(c, <<>>, Requests(a, "PUT", u), a.reply.srv, "done",
                          put_result(a), NoResource)
            ELSE Effect(c, <<>>, <<>>, server, "done", Raised("Error", 0), NoResource)
    /\ UNCHANGED <<uri, fn, arg, suf, out>>

\* Repository.delete(uri)
delete(c) ==
    /\ Ready(c)
    /\ \E u \in URIArgs(uri) :
         /\ Enter(c, [NoCall EXCEPT !.name = "delete", !.uri = u])
         /\ \E a \in api(uri, server, "DELETE", u, NoPayload) :
              Effect(c, <<>>, Requests(a, "DELETE", u), a.reply.srv, "done",
                     _delete_uri(a), NoResource)
    /\ UNCHANGED <<uri, fn, arg, suf, out>>

\* Repository.obliterate(uri)
obliterate(c) ==
    /\ Ready(c)
    /\ \E u \in URIArgs(uri) :
         /\ Enter(c, [NoCall EXCEPT !.name = "obliterate", !.uri = u])
         /\ \E a \in api(uri, server, "DELETE", tombstone(u), NoPayload) :
              Effect(c, <<>>, Requests(a, "DELETE", tombstone(u)), a.reply.srv, "done",
                     _delete_uri(a), NoResource)
    /\ UNCHANGED <<uri, fn, arg, suf, out>>

\* Resource.get() leaves the object it is called on as it is: the Resource
\* that Repository.get returns is bound to the local name self only
Resource_get_self(self, fetched) == self

\* Resource.get() on the Resource the caller holds
Resource_get(c) ==
    /\ Ready(c)
    /\ held[c].some
    /\ LET u == held[c].uri
       IN  /\ Enter(c, [NoCall EXCEPT !.name = "Resource.get", !.uri = u])
           /\ \E a \in api(uri, server, "GET", u, NoPayload) :
                Effect(c, <<>>, Requests(a, "GET", u), a.reply.srv, "done",
                       get_result(a), Resource_get_self(held[c], get_resource(a, u)))
    /\ UNCHANGED <<uri, fn, arg, suf, out>>

\* Resource.put() before it calls Repository.put: a Resource without the
\* attribute rdf, one whose rdf is falsy, one whose rdf is written
Resource_put_check(self) ==
    IF ~self.hasRdf THEN "AttributeError"
    ELSE IF ~Truthy(GraphVal(self.rdf)) THEN "Error"
    ELSE "put"

\* Resource.put() on the Resource the caller holds
Resource_put(c) ==
    /\ Ready(c)
    /\ held[c].some
    /\ LET u == held[c].uri
           md == GraphVal(held[c].rdf)
       IN  /\ Enter(c, [NoCall EXCEPT !.name = "Resource.put", !.uri = u, !.metadata = md])
           /\ IF Resource_put_check(held[c]) = "put"
              THEN \E a \in api(uri, server, "PUT", u, RdfNode(md.triples)) :
                     Effect(c, <<>>, Requests(a, "PUT", u), a.reply.srv, "done",
                            put_result(a), NoResource)
              ELSE Effect(c, <<>>, <<>>, server, "done",
                          Raised(Resource_put_check(held[c]), 0), NoResource)
    /\ UNCHANGED <<uri, fn, arg, suf, out>>

\* Repository.add_container(uri, metadata, path=..., force=...) up to its
\* first request
add_container(c) ==
    /\ Ready(c)
    /\ \E u \in ParentArgs(uri), p \in PathArgs, f \in BOOLEAN, g \in Graphs :
         LET call == [NoCall EXCEPT !.name = "add_container", !.uri = u, !.path = p,
                                    !.force = f, !.metadata = GraphVal(g)]
         IN  /\ Enter(c, call)
             /\ Effect(c, <<>>, <<>>, server, CreateEntry(call), Pending, NoResource)
    /\ UNCHANGED <<uri, fn, arg, suf, out>>

\* Repository.add_binary(uri, source, path=..., force=...) up to its first
\* request
add_binary(c) ==
    /\ Ready(c)
    /\ \E u \in ParentArgs(uri), p \in PathArgs, f \in BOOLEAN, src \in Sources :
         LET call == [NoCall EXCEPT !.name = "add_binary", !.uri = u, !.path = p,
                                    !.force = f, !.source = src]
         IN  /\ Enter(c, call)
             /\ Effect(c, <<>>, <<>>, server, CreateEntry(call), Pending, NoResource)
    /\ UNCHANGED <<uri, fn, arg, suf, out>>

\* where _ensure_path goes on after its GET
EnsureNext(call, decision) ==
    IF decision = "force" THEN "ensure_delete"
    ELSE IF decision = "conflict" THEN "done"
    ELSE AfterEnsure(call)

\* Repository._ensure_path(path, force): the GET and the branch on its response
_ensure_path(c) ==
    /\ pc[c] = "ensure"
    /\ \E a \in api(uri, server, "GET", target[c], NoPayload) :
         LET decision == _ensure_path_decision(a.reply.status, op[c].force)
         IN  IF a.raised
             THEN Effect(c, sent[c], <<>>, server, "done", Raised("URIError", 0), NoResource)
             ELSE Effect(c, sent[c], Requests(a, "GET", target[c]), a.reply.srv,
                         EnsureNext(op[c], decision),
                         IF decision = "conflict" THEN Raised("ConflictError", 0)
                                                  ELSE Pending,
                         NoResource)
    /\ UNCHANGED <<op, target, before, left>>
    /\ UNCHANGED <<uri, fn, arg, suf, out>>

\* Repository._ensure_path, force: self.delete(path)
ensure_delete(c) ==
    /\ pc[c] = "ensure_delete"
    /\ \E a \in api(uri, server, "DELETE", target[c], NoPayload) :
         Effect(c, sent[c], Requests(a, "DELETE", target[c]), a.reply.srv,
                IF _delete_uri(a) = Returned THEN "ensure_obliterate" ELSE "done",
                IF _delete_uri(a) = Returned THEN Pending ELSE _delete_uri(a),
                NoResource)
    /\ UNCHANGED <<op, target, before, left>>
    /\ UNCHANGED <<uri, fn, arg, suf, out>>

\* Repository._ensure_path, force: self.obliterate(path)
ensure_obliterate(c) ==
    /\ pc[c] = "ensure_obliterate"
    /\ \E a \in api(uri, server, "DELETE", tombstone(target[c]), NoPayload) :
         Effect(c, sent[c], Requests(a, "DELETE", tombstone(target[c])), a.reply.srv,
                IF _delete_uri(a) = Returned THEN AfterEnsure(op[c]) ELSE "done",
                IF _delete_uri(a) = Returned THEN Pending ELSE _delete_uri(a),
                NoResource)
    /\ UNCHANGED <<op, target, before, left>>
    /\ UNCHANGED <<uri, fn, arg, suf, out>>

\* Repository.add_binary after the path is settled: the source is opened.  A
\* URL is fetched with a streaming GET (answered like every request of the
\* model), a file is opened for reading, which may fail and raise, and
\* anything that is not a string raises Error
open_source(c) ==
    /\ pc[c] = "source"
    /\ IF op[c].source = "other"
       THEN Effect(c, sent[c], <<>>, server, "done", Raised("Error", 0), NoResource)
       ELSE \E opened \in IF op[c].source = "url" THEN {TRUE} ELSE BOOLEAN :
              Effect(c, sent[c],
                     IF op[c].source = "url"
                     THEN <<Request("GET", SourceURL, OK)>>
                     ELSE <<>>,
                     server,
                     IF opened THEN "add" ELSE "done",
                     IF opened THEN Pending ELSE Raised("IOError", 0),
                     NoResource)
    /\ UNCHANGED <<op, target, before, left>>
    /\ UNCHANGED <<uri, fn, arg, suf, out>>

\* Repository._add_resource(uri, method, headers, data), and in add_container
\* the assignment of the metadata to the Resource it returns
_add_resource(c) ==
    /\ pc[c] = "add"
    /\ \E a \in api(uri, server, CreateMethod(op[c]), target[c], CreatePayload(op[c])) :
         Effect(c, sent[c], Requests(a, CreateMethod(op[c]), target[c]), a.reply.srv,
                "done", _add_resource_result(a), _add_resource_resource(a, op[c]))
    /\ UNCHANGED <<op, target, before, left>>
    /\ UNCHANGED <<uri, fn, arg, suf, out>>

-----------------------------------------------------------------------------
(* The sequential caller: one client, one operation after the other *)

NoOut == [ok |-> FALSE, val |-> <<>>]

InitServer(base) ==
    [n \in Nodes(base) |-> IF n = Cont(base) THEN RdfNode({"title0"}) ELSE FreeNode]

Init ==
    /\ uri \in {NormaliseBase(cfg) : cfg \in ProtocolConfigs}
    /\ server = InitServer(uri)
    /\ op = [c \in Callers |-> NoCall]
    /\ pc = [c \in Callers |-> "idle"]
    /\ target = [c \in Callers |-> <<>>]
    /\ sent = [c \in Callers |-> <<>>]
    /\ result = [c \in Callers |-> Pending]
    /\ held = [c \in Callers |-> NoResource]
    /\ before = [c \in Callers |-> InitServer(uri)]
    /\ left = [c \in Callers |-> IF c = 1 THEN MaxOps ELSE 0]
    /\ fn = "none"
    /\ arg = <<>>
    /\ suf = <<>>
    /\ out = NoOut

Next ==
    \E c \in Callers :
        \/ get(c)
        \/ put(c)
        \/ delete(c)
        \/ obliterate(c)
        \/ Resource_get(c)
        \/ Resource_put(c)
        \/ add_container(c)
        \/ add_binary(c)
        \/ _ensure_path(c)
        \/ ensure_delete(c)
        \/ ensure_obliterate(c)
        \/ open_source(c)
        \/ _add_resource(c)

Spec == Init /\ [][Next]_vars

-----------------------------------------------------------------------------
(* Concurrent callers: each has called add_container or add_binary with a   *)
(* path, all on the same free target, and runs it one request at a time     *)

RaceCalls(base) ==
    {[NoCall EXCEPT !.name = n, !.uri = Cont(base), !.path = <<"b">>, !.force = f,
                    !.metadata = IF n = "add_container" THEN GraphVal({"title1"})
                                                        ELSE NoneVal] :
        n \in {"add_container", "add_binary"}, f \in BOOLEAN}

InitRace ==
    /\ uri \in {NormaliseBase(cfg) : cfg \in ProtocolConfigs}
    /\ server = InitServer(uri)
    /\ op \in [Callers -> RaceCalls(uri)]
    /\ pc = [c \in Callers |-> CreateEntry(op[c])]
    /\ target = [c \in Callers |-> CreateTarget(op[c])]
    /\ sent = [c \in Callers |-> <<>>]
    /\ result = [c \in Callers |-> Pending]
    /\ held = [c \in Callers |-> NoResource]
    /\ before = [c \in Callers |-> InitServer(uri)]
    /\ left = [c \in Callers |-> 0]
    /\ fn = "none"
    /\ arg = <<>>
    /\ suf = <<>>
    /\ out = NoOut

NextRace ==
    \E c \in Callers :
        \/ _ensure_path(c)
        \/ ensure_delete(c)
        \/ ensure_obliterate(c)
        \/ open_source(c)
        \/ _add_resource(c)

SpecRace == InitRace /\ [][NextRace]_vars

-----------------------------------------------------------------------------
(* The translator functions applied to strings drawn from bounded sets *)

PathAlphabet == {"a", SEP, NL}
PathInputs == StringsUpTo(PathAlphabet, MaxLen)

\* the suffixes handed to pathconcat: a relative path and the tombstone marker
Suffixes == {<<"b">>, FcrTombstone}

\* the strings the unescaped base URI matches as a pattern: '.' also stands
\* for another character
RECURSIVE Lookalikes(_)
Lookalikes(base) ==
    IF base = <<>> THEN {<<>>}
    ELSE LET lastch == base[Len(base)]
             chars == IF lastch = "." THEN {".", "x"} ELSE {lastch}
         IN  {Append(s, ch) : s \in Lookalikes(ButLast(base)), ch \in chars}

\* URIs under the base URI, under a look-alike of it and under another one,
\* with and without the separator after "rest"
URIInputs(base) ==
    {pre \o mid \o t : pre \in Lookalikes(base) \cup {<<"g", SEP>>},
                         mid \in {Rest, RestSlash}, t \in PathInputs}

InitURI ==
    /\ uri \in {NormaliseBase(cfg) : cfg \in ConfigURIs}
    /\ arg \in PathInputs \cup URIInputs(uri)
    /\ suf \in Suffixes
    /\ fn = "none"
    /\ out = NoOut
    /\ server = InitServer(uri)
    /\ op = [c \in Callers |-> NoCall]
    /\ pc = [c \in Callers |-> "idle"]
    /\ target = [c \in Callers |-> <<>>]
    /\ sent = [c \in Callers |-> <<>>]
    /\ result = [c \in Callers |-> Pending]
    /\ held = [c \in Callers |-> NoResource]
    /\ before = [c \in Callers |-> InitServer(uri)]
    /\ left = [c \in Callers |-> 0]

\* path2uri(arg)
CallPath2uri ==
    /\ fn = "none"
    /\ fn' = "path2uri"
    /\ out' = [ok |-> TRUE, val |-> path2uri(uri, arg)]
    /\ UNCHANGED <<uri, arg, suf, callVars>>

\* uri2path(arg): the path, or URIError
CallUri2path ==
    /\ fn = "none"
    /\ fn' = "uri2path"
    /\ out' = [ok |-> uri2path(uri, arg).ok, val |-> uri2path(uri, arg).path]
    /\ UNCHANGED <<uri, arg, suf, callVars>>

\* path2uri applied to the path uri2path returned
CallPath2uriBack ==
    /\ fn = "uri2path"
    /\ out.ok
    /\ fn' = "roundtrip"
    /\ out' = [ok |-> TRUE, val |-> path2uri(uri, out.val)]
    /\ UNCHANGED <<uri, arg, suf, callVars>>

\* pathconcat(arg, suf)
CallPathconcat ==
    /\ fn = "none"
    /\ fn' = "pathconcat"
    /\ out' = [ok |-> TRUE, val |-> pathconcat(arg, suf)]
    /\ UNCHANGED <<uri, arg, suf, callVars>>

NextURI == CallPath2uri \/ CallUri2path \/ CallPath2uriBack \/ CallPathconcat

SpecURI == InitURI /\ [][NextURI]_vars

-----------------------------------------------------------------------------
(* Vocabulary of the properties *)

\* caller c is in (or has finished) add_container or add_binary with a path
Deterministic(c) == op[c].name \in {"add_container", "add_binary"} /\ op[c].path # <<>>

\* the conflict check of c's create has sent its GET, the first request of
\* the operation, and got a response
Checked(c) ==
    /\ Deterministic(c)
    /\ Len(sent[c]) >= 1
    /\ sent[c][1].method = "GET"
    /\ sent[c][1].uri = target[c]

CheckStatus(c) == sent[c][1].status

Done(c) == pc[c] = "done"

\* the requests of c with method m, as positions in sent[c]
Sent(c, m) == {i \in 1..Len(sent[c]) : sent[c][i].method = m}

\* the URI of the tombstone of the resource at u
TombstoneURI(u) == u \o <<SEP>> \o FcrTombstone

\* what a fetch of u gets from a server in state srv that answers it
Fetch(srv, u) == NormalReplies(uri, srv, "GET", u, NoPayload)

-----------------------------------------------------------------------------
(* C1 *)

\* C1: when the conflict-check GET of a deterministic-path create gets an
\* error status other than not-found (403, 410), the create ends with a
\* ResourceError carrying that status and no PUT is issued, whatever force is.
\* Stated as the claim states it; _ensure_path does not do this.
C1_ErrorStatusPropagates ==
    \A c \in Callers :
        (Checked(c) /\ ~ResponseTruthy(CheckStatus(c)) /\ CheckStatus(c) # NOT_FOUND)
            => /\ Sent(c, "PUT") = {}
               /\ Done(c) => result[c] = Raised("ResourceError", CheckStatus(c))

-----------------------------------------------------------------------------
(* C2 *)

\* C2: a deterministic-path create without force whose check finds the path
\* occupied (its GET succeeds) has ended with ConflictError as soon as the
\* GET is answered: the GET is all it sent (no DELETE, no PUT), the server
\* is as it was when the create started, and a fetch of the path still gets
\* what it got before.
C2_ConflictLeavesResource ==
    \A c \in Callers :
        (Checked(c) /\ ResponseTruthy(CheckStatus(c)) /\ ~op[c].force)
            => /\ Done(c)
               /\ result[c].kind = "ConflictError"
               /\ Len(sent[c]) = 1
               /\ server = before[c]
               /\ Fetch(server, target[c]) = Fetch(before[c], target[c])

\* an add_container without force has met a container with other metadata
C2_Witness ==
    \E c \in Callers :
        /\ Checked(c) /\ CheckStatus(c) = OK /\ ~op[c].force
        /\ result[c].kind = "ConflictError"
        /\ op[c].name = "add_container"
        /\ server[target[c]].kind = "rdf"
        /\ server[target[c]].triples # op[c].metadata.triples

-----------------------------------------------------------------------------
(* C3 *)

\* C3: in a deterministic-path create with force whose check finds the path
\* occupied, the request after the GET is the DELETE of the target, the one
\* after that (sent only once that DELETE got 204) is the DELETE of the
\* target's tombstone, and a PUT comes only after both got 204; when the
\* create has returned, the server holds at the target what the create
\* supplied, and that is what a fetch gets.
C3_ForceDeletesThenCreates ==
    \A c \in Callers :
        (Checked(c) /\ ResponseTruthy(CheckStatus(c)) /\ op[c].force)
            => /\ Len(sent[c]) >= 2 =>
                     sent[c][2].method = "DELETE" /\ sent[c][2].uri = target[c]
               /\ Len(sent[c]) >= 3 =>
                     /\ sent[c][2].status = NO_CONTENT
                     /\ sent[c][3].method = "DELETE"
                     /\ sent[c][3].uri = TombstoneURI(target[c])
               /\ \A i \in Sent(c, "PUT") :
                     /\ i > 3
                     /\ sent[c][3].status = NO_CONTENT
                     /\ sent[c][i].uri = target[c]
               /\ (Done(c) /\ result[c] = Returned) =>
                     /\ Sent(c, "PUT") # {}
                     /\ server[target[c]] = CreatePayload(op[c])
                     /\ \A r \in Fetch(server, target[c]) :
                            r.status = OK /\ r.triples = CreatePayload(op[c]).triples

\* an add_container with force has replaced a container with other metadata
C3_Witness ==
    \E c \in Callers :
        /\ Checked(c) /\ CheckStatus(c) = OK /\ op[c].force
        /\ Done(c) /\ result[c] = Returned
        /\ op[c].name = "add_container"
        /\ before[c][target[c]].kind = "rdf"
        /\ before[c][target[c]].triples # op[c].metadata.triples
        /\ Len(sent[c]) = 4

-----------------------------------------------------------------------------
(* C4 *)

-----------------------------------------------------------------------------
(* C5 *)

\* C5: when, in a create with force, the DELETE of the target got 204 and the
\* DELETE of its tombstone got another status, the create has ended with a
\* ResourceError carrying that status, these two and the GET are all it sent
\* (no PUT, no request that undoes the delete), and the server holds a
\* tombstone at the target.
C5_FailedObliterateLeavesTombstone ==
    \A c \in Callers :
        (/\ Checked(c)
         /\ Len(sent[c]) >= 3
         /\ sent[c][2].method = "DELETE" /\ sent[c][2].status = NO_CONTENT
         /\ sent[c][3].method = "DELETE" /\ sent[c][3].uri = TombstoneURI(target[c])
         /\ sent[c][3].status # NO_CONTENT)
            => /\ Done(c)
               /\ result[c] = Raised("ResourceError", sent[c][3].status)
               /\ Len(sent[c]) = 3
               /\ server[target[c]] = TombNode
               /\ before[c][target[c]].kind \in {"rdf", "binary"}

\* the obliterate of a create with force was refused after its delete went through
C5_Witness ==
    \E c \in Callers :
        /\ Checked(c) /\ op[c].force
        /\ Len(sent[c]) = 3
        /\ sent[c][2].status = NO_CONTENT
        /\ sent[c][3].uri = TombstoneURI(target[c])
        /\ sent[c][3].status = FORBIDDEN
        /\ result[c].kind = "ResourceError"
        /\ server[target[c]].kind = "tomb"

-----------------------------------------------------------------------------
(* C6 *)

\* C6: an operation whose target URI does not match the repository's pattern
\* has sent no HTTP request of any kind, and when it is finished it has raised
\* URIError.  (Read in the claim's favour: an operation that raised over its
\* other arguments before it reached api, Error for a put without metadata or
\* a source that is not a string, the open's exception for a file that cannot
\* be read, is left out.)  Stated as the claim states it; add_binary does not
\* do this.
C6_URICheckedBeforeAnyRequest ==
    \A c \in Callers :
        (op[c].name # "none" /\ ~uri2path(uri, target[c]).ok)
            => /\ sent[c] = <<>>
               /\ Done(c) => result[c].kind \in {"URIError", "Error", "IOError"}

-----------------------------------------------------------------------------
(* C7 *)

\* C7: the uri of every Resource an operation has returned matches the
\* repository's pattern.  Stated as the claim states it; _add_resource stores
\* the location of the response unchecked.
C7_ResourceURIsMatchPattern ==
    \A c \in Callers : held[c].some => uri2path(uri, held[c].uri).ok

-----------------------------------------------------------------------------
(* C8 *)

\* C8: nothing another caller does holds back a caller whose conflict check
\* got 404: it never ends with ConflictError, it sends no DELETE, and once
\* it is finished (its source, if it is an add_binary, opened) it has sent
\* its PUT to the target, also when another caller has created the target
\* in between.
C8_NoCoordination ==
    \A c \in Callers :
        (Checked(c) /\ CheckStatus(c) = NOT_FOUND)
            => /\ result[c].kind # "ConflictError"
               /\ Sent(c, "DELETE") = {}
               /\ (Done(c) /\ result[c].kind # "IOError") =>
                     \E i \in Sent(c, "PUT") : sent[c][i].uri = target[c]

\* two callers have both got 404 from their check before either had sent its
\* PUT, and both have then sent a PUT to the same path
C8_Witness ==
    \E c, d \in Callers :
        /\ c # d
        /\ target[c] = target[d]
        /\ Checked(c) /\ CheckStatus(c) = NOT_FOUND /\ sent[c][1].afterPuts = 0
        /\ Checked(d) /\ CheckStatus(d) = NOT_FOUND /\ sent[d][1].afterPuts = 0
        /\ Done(c) /\ \E i \in Sent(c, "PUT") : sent[c][i].uri = target[c]
        /\ Done(d) /\ \E i \in Sent(d, "PUT") : sent[d][i].uri = target[d]

-----------------------------------------------------------------------------
(* C9 *)

\* the URI arg starts with the literal base URI + "rest/", and what follows
\* is a path that is not empty, does not start with a separator and holds no
\* line break
PlainRepositoryURI(u) ==
    LET pre == uri \o RestSlash
        p == Drop(u, Len(pre))
    IN  /\ StartsWith(u, pre)
        /\ p # <<>>
        /\ p[1] # SEP
        /\ NoNewline(p)

\* C9 as claimed: path2uri(uri2path(u)) = u for every u that uri2path accepts.
C9_RoundTrip == fn = "roundtrip" => out.val = arg

\* C9 as amended: for a u that uri2path accepts, path2uri(uri2path(u)) = u
\* exactly when u starts with the literal base URI + "rest/" followed by a
\* path that is not empty, does not start with a separator and holds no
\* line break.
C9_RoundTripOfPlainURIs == fn = "roundtrip" => (out.val = arg <=> PlainRepositoryURI(arg))

\* the round trip of a URI with a path of two segments
C9_Witness ==
    /\ fn = "roundtrip"
    /\ arg = uri \o RestSlash \o <<"a", SEP, "a">>
    /\ out.val = arg

-----------------------------------------------------------------------------
(* C10 *)

\* C10 as claimed: path2uri(p) = base URI + "rest/" + p for every p that does
\* not start with a separator, the empty path included.
C10_RelativePath ==
    (fn = "path2uri" /\ (arg = <<>> \/ arg[1] # SEP)) => out.val = uri \o RestSlash \o arg

\* C10 as amended: path2uri(p) = base URI + "rest/" + p for every p that is
\* not empty and does not start with a separator.
C10_NonEmptyRelativePath ==
    (fn = "path2uri" /\ arg # <<>> /\ arg[1] # SEP) => out.val = uri \o RestSlash \o arg

\* path2uri of a relative path of two segments
C10_Witness ==
    /\ fn = "path2uri"
    /\ arg = <<"a", SEP, "a">>
    /\ out.val = uri \o RestSlash \o arg

-----------------------------------------------------------------------------
(* C11 *)

\* C11: uri2path of a URI that does not start with the literal base URI +
\* "rest/" fails with URIError, whatever the configured base URI, also one
\* that holds a '.'.
C11_OtherBaseRejected ==
    (fn = "uri2path" /\ ~StartsWith(arg, uri \o RestSlash)) => ~out.ok

-----------------------------------------------------------------------------
(* C12 *)

\* C12: pathconcat(path, suffix) joins the two with exactly one separator:
\* path + suffix when path ends with '/', path + '/' + suffix otherwise (so a
\* create under a parent and the tombstone of a resource never get a doubled
\* separator).
C12_OneSeparator ==
    fn = "pathconcat" =>
        out.val = IF LastStr(arg) = <<SEP>> THEN arg \o suf ELSE arg \o <<SEP>> \o suf

-----------------------------------------------------------------------------
(* C13 *)

\* C13: put(uri, metadata) on a URI of this repository with any metadata
\* graph, one with no triples included, issues exactly one PUT to uri, returns
\* exactly when the response is 204 and raises ResourceError otherwise; with
\* no metadata graph it raises Error and sends no request.
C13_PutWithAnyGraph ==
    \A c \in Callers :
        (Done(c) /\ op[c].name = "put" /\ uri2path(uri, op[c].uri).ok) =>
            IF op[c].metadata.some
            THEN /\ Len(sent[c]) = 1
                 /\ sent[c][1].method = "PUT"
                 /\ sent[c][1].uri = op[c].uri
                 /\ result[c] = IF sent[c][1].status = NO_CONTENT
                                THEN Returned
                                ELSE Raised("ResourceError", sent[c][1].status)
            ELSE /\ sent[c] = <<>>
                 /\ result[c] = Raised("Error", 0)

-----------------------------------------------------------------------------
(* C14 *)

\* C14: after Resource.get() has returned without error, the rdf of the
\* Resource it was called on is the metadata the server holds at the
\* Resource's uri, also when that metadata was changed after the Resource
\* was fetched or created.
C14_ResourceGetRefreshes ==
    \A c \in Callers :
        (/\ Done(c)
         /\ op[c].name = "Resource.get"
         /\ result[c] = Returned
         /\ server[held[c].uri].kind = "rdf")
        => (held[c].hasRdf /\ held[c].rdf = server[held[c].uri].triples)

-----------------------------------------------------------------------------
(* C15 *)

\* C15: an add_binary that ends with Error because its source is neither a
\* file name nor a URL has left the repository as it was: it has issued no
\* DELETE, of the target or of its tombstone, also with a path, force and an
\* occupied target.
C15_UnsupportedSourceChangesNothing ==
    \A c \in Callers :
        (Done(c) /\ op[c].name = "add_binary" /\ result[c] = Raised("Error", 0)) =>
            /\ Sent(c, "DELETE") = {}
            /\ server = before[c]

=============================================================================
